---- MODULE Spec2Model ----
(***************************************************************************)
(* Model of the GMG Cloud integration (custom_components/gmg_cloud):       *)
(* the cloud session manager (api.py, GMGCloudApi) and the adaptive        *)
(* polling scheduler (__init__.py, async_setup_entry / async_update_data / *)
(* trigger_burst).                                                         *)
(*                                                                         *)
(* Coroutines run on one asyncio event loop: the code between two          *)
(* suspension points is one atomic action.  The suspension points are the  *)
(* HTTP requests (session.get / session.put) and the executor jobs         *)
(* (_sync_authenticate, _sync_refresh_token).                              *)
(***************************************************************************)
EXTENDS Integers, Sequences, FiniteSets, TLC

(* ---------------------------- program constants ------------------------ *)
SCAN_INTERVAL == 30
SCAN_INTERVAL_ACTIVE == 2
SCAN_INTERVAL_IDLE == 60
SCAN_INTERVAL_BURST == 1
SCAN_BURST_DURATION == 30

(* ------------------------------- bounds -------------------------------- *)
\* number of concurrent entity command handlers
NumCallers == 1
\* longest directory the cloud returns
MaxDevices == 2
\* HTTP requests one top-level API call may issue before the server stops
\* answering 401/403
MaxRequests == 3
\* clock granularity and horizon (seconds of time.monotonic())
Quantum == 15
MaxTime == 30

(* ------------------------------ processes ------------------------------ *)
\* Main: async_setup_entry followed by the coordinator's refresh task
Main == 0
Callers == 1..NumCallers
Procs == {Main} \cup Callers

(* ------------------------------- values -------------------------------- *)
\* Python None for an Optional value is the empty sequence, Some(v) is <<v>>
None == << >>
Some(v) == <<v>>

\* self._id_token: 0 is None, the others are the opaque token strings the
\* identity provider hands out
Tokens == {1, 2}
IdTokenValues == {0} \cup Tokens

\* a directory record is represented by its grillId; 0 is a record whose
\* grillId is missing or empty (grill.get("grillId") is falsy)
GrillIds == 0..MaxDevices
RECURSIVE SeqsUpTo(_, _)
SeqsUpTo(S, n) ==
    IF n = 0 THEN {<< >>}
    ELSE LET shorter == SeqsUpTo(S, n - 1)
         IN  shorter \cup {Append(s, x) : s \in {t \in shorter : Len(t) = n - 1}, x \in S}
\* identifiers are opaque strings that are only compared with each other:
\* they are numbered in the order in which the directory first shows them
FirstShown(s) ==
    \A i \in 1..Len(s) :
        \A g \in 1..(s[i] - 1) : \E j \in 1..(i - 1) : s[j] = g
\* the JSON arrays GET /grill may answer
Directories == {s \in SeqsUpTo(GrillIds, MaxDevices) : FirstShown(s)}

\* grillState codes: 0 is off, 1 is grill mode
GrillStateCodes == {0, 1}

\* the JSON object of a state response; has: the key "grillState" is present
\* (the responses enumerated here all carry it)
StateDicts ==
    {[has |-> TRUE, grillState |-> n] : n \in GrillStateCodes}
\* what async_get_grill_state returns: dict | None
Snapshots == {None} \cup {Some(d) : d \in StateDicts}

\* HTTP statuses the cloud may answer
Statuses == {200, 201, 202, 401, 403, 404, 500}

VARIABLES
    id_token,         \* GMGCloudApi._id_token
    cognito,          \* GMGCloudApi._cognito is set
    grills,           \* GMGCloudApi._grills
    pc,               \* per coroutine: where its API call is suspended
    gets,             \* per coroutine: HTTP requests issued by the current top-level call
    reauths,          \* per coroutine: _async_refresh_token calls of the current top-level call
    res,              \* per coroutine: id_token returned by a finished _sync_authenticate job
    ret,              \* per coroutine: how its last async_send_command call ended
    phase,            \* position of async_setup_entry / the refresh task
    loaded,           \* first refresh done: entities exist
    idx,              \* async_update_data: index of the grill being fetched
    data,             \* async_update_data: data["grills"] being assembled
    any_active,       \* async_update_data: any_active
    armed,            \* trigger_burst ran at the very instant this tick started
    fetched,          \* what async_get_grill_state returned in this sweep, in call order
    sweeps,           \* number of refreshes that have ended, modulo 2
    published,        \* coordinator.data["grills"] (None before the first refresh)
    lastOutcome,      \* how the last tick ended: "none", "ok", "failed"
    now,              \* time.monotonic()
    burst_until,      \* burst_state["until"]
    rearmed,          \* the last trigger_burst ran while burst was still armed
    update_interval,  \* coordinator.update_interval in seconds (0: no coordinator yet)
    session,          \* GMGCloudApi._session: "none", "open" or "closed"
    header,           \* per coroutine: the Authorization header of the request it has
                      \* in flight (0: none)
    unload,           \* what async_unload_entry returned last ("none": not called)
    handler,          \* per coroutine: the entity command handler it runs or ran last
    shown,            \* what the entities of the first device display, as their
                      \* constructors and command handlers have set it
    last              \* the HTTP exchange that ended in the latest step, where it is on record

vars == <<id_token, cognito, grills, pc, gets, reauths, res, ret, phase, loaded,
          idx, data, any_active, armed, fetched, sweeps, published, lastOutcome, now,
          burst_until, rearmed, update_interval, session, header, unload, handler,
          shown, last>>

sessionVars == <<id_token, cognito>>
frameVars == <<pc, gets, reauths, res, ret, session, header>>
tickVars == <<idx, data, any_active, armed, fetched, sweeps>>
clockVars == <<now, burst_until, rearmed>>
hostVars == <<unload>>
entityVars == <<handler, shown>>

\* the empty dict {}
EmptyData == [k \in {} |-> 0]

\* the entity command handlers: ClimateEntity.async_set_hvac_mode with OFF and
\* with HEAT, async_set_temperature, GMGProbeTargetNumber.async_set_native_value
\* and GMGGrillModeSelect.async_select_option; "none" is a bare
\* async_send_command call
HandlerKinds == {"hvac_off", "hvac_heat", "temperature", "probe", "select"}

\* GRILL_MODES
Options == {"grill", "smoke", "pizza"}

\* the values the entities start with: HVACMode.OFF, 225, None, "grill"
DefaultTarget == 225
ShownAtStart == [hvac_mode |-> "off", target |-> DefaultTarget, probe |-> 0,
                 option |-> "grill"]

\* the temperatures the handlers are asked for
AskedTarget == 300
AskedProbe == 150

\* the GMGCloudApi methods the handlers call.  api.py does not define them:
\* each is taken to be one async_send_command call with the method's payload
ApiMethods == {"async_power_off", "async_power_on_grill", "async_power_on_smoke",
               "async_power_on_pizza", "async_set_grill_temp",
               "async_set_food_probe1_temp"}

\* no handler has run: kind and option of the call, stage ("idle", "send",
\* "off", "on", "returned", "raised"), the API methods it has called, the
\* values they returned, whether it called trigger_burst, and what was
\* displayed when it started
NoHandler == [kind |-> "none", option |-> "grill", stage |-> "idle", calls |-> << >>,
              results |-> {}, burst |-> FALSE, before |-> ShownAtStart]

\* no HTTP exchange ended in the latest step
NoExchange == [proc |-> Main, status |-> 0, body |-> None]
\* the request of coroutine p was answered with status st and decoded body b
Exchange(p, st, b) == [proc |-> p, status |-> st, body |-> b]
\* the status on record for a request that raised instead of being answered
TransportError == -1

Init ==
    /\ id_token = 0
    /\ cognito = FALSE
    /\ grills = << >>
    /\ pc = [p \in Procs |-> IF p = Main THEN "auth" ELSE "idle"]
    /\ gets = [p \in Procs |-> 0]
    /\ reauths = [p \in Procs |-> 0]
    /\ res = [p \in Procs |-> 0]
    /\ ret = [p \in Procs |-> "none"]
    /\ phase = "setup_auth"
    /\ loaded = FALSE
    /\ idx = 0
    /\ data = EmptyData
    /\ any_active = FALSE
    /\ armed = FALSE
    /\ fetched = << >>
    /\ sweeps = 0
    /\ published = None
    /\ lastOutcome = "none"
    /\ now = 0
    /\ burst_until = 0
    /\ rearmed = FALSE
    /\ update_interval = 0
    /\ session = "none"
    /\ header = [p \in Procs |-> 0]
    /\ unload = "none"
    /\ handler = [p \in Procs |-> NoHandler]
    /\ shown = ShownAtStart
    /\ last = NoExchange

\* the state of a config flow whose async_step_user has been given the
\* credentials: it has created its own GMGCloudApi and awaits the login
InitFlow ==
    /\ id_token = 0
    /\ cognito = FALSE
    /\ grills = << >>
    /\ pc = [p \in Procs |-> IF p = Main THEN "auth" ELSE "idle"]
    /\ gets = [p \in Procs |-> 0]
    /\ reauths = [p \in Procs |-> 0]
    /\ res = [p \in Procs |-> 0]
    /\ ret = [p \in Procs |-> "none"]
    /\ phase = "flow_auth"
    /\ loaded = FALSE
    /\ idx = 0
    /\ data = EmptyData
    /\ any_active = FALSE
    /\ armed = FALSE
    /\ fetched = << >>
    /\ sweeps = 0
    /\ published = None
    /\ lastOutcome = "none"
    /\ now = 0
    /\ burst_until = 0
    /\ rearmed = FALSE
    /\ update_interval = 0
    /\ session = "none"
    /\ header = [p \in Procs |-> 0]
    /\ unload = "none"
    /\ handler = [p \in Procs |-> NoHandler]
    /\ shown = ShownAtStart
    /\ last = NoExchange

(* ------------------------- async_update_data --------------------------- *)
\* the loop `for grill in api.get_cached_grills(): ... if grill_id:` advances
\* to the next record that has a grillId; Len(grills) + 1 when there is none
NextIdx(i) ==
    IF \E j \in (i + 1)..Len(grills) : grills[j] # 0
    THEN CHOOSE j \in (i + 1)..Len(grills) :
             /\ grills[j] # 0
             /\ \A k \in (i + 1)..(j - 1) : grills[k] = 0
    ELSE Len(grills) + 1

\* state.get("grillState", 0)
GrillState(d) == IF d.has THEN d.grillState ELSE 0

\* variant: every reachable grill counts as cooking
IsActiveWhenOnline(s) == s # None

\* `state and state.get("grillState", 0) > 0`
IsActive(s) == s # None /\ GrillState(s[1]) > 0

\* variant: the online flag does not look at the snapshot
EntryAlwaysOnline(i, s) == [info |-> grills[i], state |-> s, online |-> TRUE]

\* data["grills"][grill_id] = {"info": grill, "state": state, "online": state is not None}
Entry(i, s) == [info |-> grills[i], state |-> s, online |-> (s # None)]

\* variant: device activity is looked at before the burst window
NewIntervalActiveFirst(act) ==
    IF act THEN SCAN_INTERVAL_ACTIVE
    ELSE IF now < burst_until THEN SCAN_INTERVAL_BURST
    ELSE SCAN_INTERVAL_IDLE

\* variant: the end of the sweep forgets the burst window
NewIntervalNoBurst(act) ==
    IF act THEN SCAN_INTERVAL_ACTIVE ELSE SCAN_INTERVAL_IDLE

\* variant: the burst window includes its expiry instant
NewIntervalInclusive(act) ==
    IF now <= burst_until THEN SCAN_INTERVAL_BURST
    ELSE IF act THEN SCAN_INTERVAL_ACTIVE
    ELSE SCAN_INTERVAL_IDLE

\* variant: the idle branch uses the coordinator's initial interval
NewIntervalIdleIsFallback(act) ==
    IF now < burst_until THEN SCAN_INTERVAL_BURST
    ELSE IF act THEN SCAN_INTERVAL_ACTIVE
    ELSE SCAN_INTERVAL

\* the interval chosen at the end of a sweep
NewInterval(act) ==
    IF now < burst_until THEN SCAN_INTERVAL_BURST
    ELSE IF act THEN SCAN_INTERVAL_ACTIVE
    ELSE SCAN_INTERVAL_IDLE

\* the counters of requests and refreshes stop counting at MaxRequests
Sat(n) == IF n > MaxRequests THEN MaxRequests ELSE n

\* _ensure_session, called before every request: a session that is missing
\* or closed is replaced by a new one
EnsureSession == "open"

\* _headers, and the headers dict of async_send_command: the Authorization
\* header is self._id_token as it is when the request is built, tok
Headers(p, tok) == tok

\* variant: the headers are built from the token as it was when the
\* coroutine resumed, before the step has stored anything
SetFrameRetStaleHeaders(p, newpc, g, r, v) ==
    /\ session' = IF newpc = "http" THEN EnsureSession ELSE session
    /\ header' = [header EXCEPT ![p] = IF newpc = "http" THEN Headers(p, id_token)
                                       ELSE 0]
    /\ pc' = [pc EXCEPT ![p] = newpc]
    /\ gets' = [gets EXCEPT ![p] = g]
    /\ reauths' = [reauths EXCEPT ![p] = r]
    /\ res' = [res EXCEPT ![p] = 0]
    /\ ret' = [ret EXCEPT ![p] = v]

\* coroutine p moves to newpc with g requests and r refreshes counted, and v
\* on record as the outcome of its last async_send_command call; moving to
\* "http" issues a request, built in the same step; a call that ends keeps
\* no headers
SetFrameRet(p, newpc, g, r, v) ==
    /\ session' = IF newpc = "http" THEN EnsureSession ELSE session
    /\ header' = [header EXCEPT ![p] = IF newpc = "http" THEN Headers(p, id_token')
                                       ELSE 0]
    /\ pc' = [pc EXCEPT ![p] = newpc]
    /\ gets' = [gets EXCEPT ![p] = g]
    /\ reauths' = [reauths EXCEPT ![p] = r]
    /\ res' = [res EXCEPT ![p] = 0]
    /\ ret' = [ret EXCEPT ![p] = v]

SetFrame(p, newpc, g, r) == SetFrameRet(p, newpc, g, r, ret[p])

\* end of the sweep: the interval is recomputed and the dataset is returned to
\* the coordinator, which publishes it
TickPublish(d, act, arm, f) ==
    /\ update_interval' = NewInterval(act)
    /\ published' = Some(d)
    /\ lastOutcome' = "ok"
    /\ phase' = "wait"
    /\ loaded' = TRUE
    /\ idx' = 0 /\ data' = EmptyData /\ any_active' = FALSE /\ armed' = arm
    /\ fetched' = f /\ sweeps' = 1 - sweeps
    /\ SetFrame(Main, "idle", 0, 0)

\* variant: a failing sweep hands over what it has gathered so far
TickFailedPublishesPartial(arm, f) ==
    /\ lastOutcome' = "failed"
    /\ phase' = IF loaded THEN "wait" ELSE "setup_error"
    /\ idx' = 0 /\ data' = EmptyData /\ any_active' = FALSE /\ armed' = arm
    /\ fetched' = f /\ sweeps' = 1 - sweeps
    /\ SetFrame(Main, "idle", 0, 0)
    /\ published' = Some(data)
    /\ UNCHANGED <<update_interval, loaded>>

\* variant: a failing sweep still recomputes the interval before it raises
TickFailedRecomputes(arm, f) ==
    /\ lastOutcome' = "failed"
    /\ phase' = IF loaded THEN "wait" ELSE "setup_error"
    /\ idx' = 0 /\ data' = EmptyData /\ any_active' = FALSE /\ armed' = arm
    /\ fetched' = f /\ sweeps' = 1 - sweeps
    /\ SetFrame(Main, "idle", 0, 0)
    /\ update_interval' = NewInterval(any_active)
    /\ UNCHANGED <<published, loaded>>

\* GMGApiError out of async_get_grill_state: async_update_data raises
\* UpdateFailed; the first refresh failing makes the setup fail
TickFailed(arm, f) ==
    /\ lastOutcome' = "failed"
    /\ phase' = IF loaded THEN "wait" ELSE "setup_error"
    /\ idx' = 0 /\ data' = EmptyData /\ any_active' = FALSE /\ armed' = arm
    /\ fetched' = f /\ sweeps' = 1 - sweeps
    /\ SetFrame(Main, "idle", 0, 0)
    /\ UNCHANGED <<published, update_interval, loaded>>

\* the loop after record i was handled, with dataset d and any_active act;
\* tok is self._id_token at this moment.  The next fetch runs up to its
\* session.get without suspending
TickContinue(i, d, act, arm, f, tok) ==
    /\ LET j == NextIdx(i) IN
       IF j <= Len(grills)
       THEN IF tok = 0
            THEN TickFailed(arm, f)
            ELSE /\ idx' = j /\ data' = d /\ any_active' = act /\ armed' = arm
                 /\ fetched' = f /\ sweeps' = sweeps
                 /\ phase' = "sweep"
                 /\ SetFrame(Main, "http", 1, 0)
                 /\ UNCHANGED <<published, update_interval, lastOutcome, loaded>>
       ELSE TickPublish(d, act, arm, f)
    /\ UNCHANGED <<grills, clockVars, hostVars, entityVars>>

\* async_get_grill_state returned s for the record at idx
ReturnState(s, tok, cog) ==
    /\ id_token' = tok /\ cognito' = cog
    /\ TickContinue(idx, (grills[idx] :> Entry(idx, s)) @@ data,
                    any_active \/ IsActive(s), armed, Append(fetched, s), tok)

(* ------------------------------ config flow --------------------------- *)
\* GMGCloudApi.async_close: a session that is open is closed
async_close(s) == IF s = "open" THEN "closed" ELSE s

\* async_step_user after async_get_grills returned list: the client is
\* closed, then the entry is created or the form shown with no_grills
FlowReturnGrills(list) ==
    /\ phase' = IF list # << >> THEN "flow_created" ELSE "flow_no_grills"
    /\ session' = async_close(session)
    /\ header' = [header EXCEPT ![Main] = 0]
    /\ pc' = [pc EXCEPT ![Main] = "idle"]
    /\ gets' = [gets EXCEPT ![Main] = 0]
    /\ reauths' = [reauths EXCEPT ![Main] = 0]
    /\ res' = [res EXCEPT ![Main] = 0]
    /\ UNCHANGED <<ret, update_interval>>

(* -------------------------- async_setup_entry -------------------------- *)
\* async_setup_entry after async_get_grills returned list
SetupReturnGrills(list) ==
    /\ IF list = << >>
       THEN /\ phase' = "setup_failed"
            /\ update_interval' = update_interval
       ELSE \* the coordinator is created; the first refresh follows
            /\ phase' = "wait"
            /\ update_interval' = SCAN_INTERVAL
    /\ SetFrame(Main, "idle", 0, 0)

\* variant: the cache is assigned before the status is looked at, so an
\* answer that is not a device list is cached as a record without grillId
ReturnGrillsCachesAnyAnswer(ok, list, tok, cog) ==
    /\ id_token' = tok /\ cognito' = cog
    /\ grills' = IF ok THEN list ELSE <<0>>
    /\ IF phase = "flow_grills" THEN FlowReturnGrills(list) ELSE SetupReturnGrills(list)
    /\ UNCHANGED <<loaded, tickVars, published, lastOutcome, clockVars, hostVars, entityVars>>

\* async_get_grills returned list (ok: from a 200 response, which also
\* stores it in self._grills) to the setup or to the config flow
ReturnGrills(ok, list, tok, cog) ==
    /\ id_token' = tok /\ cognito' = cog
    /\ grills' = IF ok THEN list ELSE grills
    /\ IF phase = "flow_grills" THEN FlowReturnGrills(list) ELSE SetupReturnGrills(list)
    /\ UNCHANGED <<loaded, tickVars, published, lastOutcome, clockVars, hostVars, entityVars>>

(* ------------------------------ entities ------------------------------- *)
\* variant: the duration is applied with the wrong sign
BurstExpiryBackwards(t) == SCAN_BURST_DURATION - t

\* time.monotonic() + SCAN_BURST_DURATION
BurstExpiry(t) == t + SCAN_BURST_DURATION

\* variant: a call made while burst is armed extends the running window
ArmBurstStacks ==
    /\ burst_until' = (IF now < burst_until THEN burst_until ELSE now) + SCAN_BURST_DURATION
    /\ update_interval' = SCAN_INTERVAL_BURST
    /\ rearmed' = (now < burst_until)

\* the body of trigger_burst
ArmBurst ==
    /\ burst_until' = BurstExpiry(now)
    /\ update_interval' = SCAN_INTERVAL_BURST
    /\ rearmed' = (now < burst_until)

NoBurst == UNCHANGED <<burst_until, update_interval, rearmed>>

\* async_select_option: the published state of the entity's device shows
\* grillState 1 or 3
IsOn ==
    /\ published # None
    /\ grills[1] # 0 /\ grills[1] \in DOMAIN published[1]
    /\ published[1][grills[1]].state # None
    /\ GrillState(published[1][grills[1]].state[1]) \in {1, 3}

\* the API method a handler of the given kind calls first
FirstCall(kind) ==
    CASE kind = "hvac_off" -> "async_power_off"
      [] kind = "hvac_heat" -> "async_power_on_grill"
      [] kind = "temperature" -> "async_set_grill_temp"
      [] kind = "probe" -> "async_set_food_probe1_temp"
      [] kind = "select" -> "async_power_off"

\* the API method async_select_option calls after the power-off
PowerOn(opt) ==
    IF opt = "smoke" THEN "async_power_on_smoke"
    ELSE IF opt = "pizza" THEN "async_power_on_pizza"
    ELSE "async_power_on_grill"

\* what a handler of the given kind displays once its command send has
\* returned True
Optimistic(kind, sh) ==
    CASE kind = "hvac_off" -> [sh EXCEPT !.hvac_mode = "off"]
      [] kind = "hvac_heat" -> [sh EXCEPT !.hvac_mode = "heat"]
      [] kind = "temperature" -> [sh EXCEPT !.target = AskedTarget]
      [] kind = "probe" -> [sh EXCEPT !.probe = AskedProbe]

\* the handler of coroutine p goes on after its command send returned ok; tok
\* is the token stored at this moment.  The climate and number handlers
\* display the new value when ok is True and go on to request a refresh; the
\* select handler ignores ok, sends its power-on after its power-off, then
\* calls trigger_burst and goes on to request a refresh
HandlerResume(p, ok, tok) ==
    LET h == handler[p]
        seen == [h EXCEPT !.results = h.results \cup {ok}]
        next == [seen EXCEPT !.calls = Append(h.calls, PowerOn(h.option))]
    IN  CASE h.kind = "none" ->
                 /\ SetFrameRet(p, "idle", 0, 0, IF ok THEN "true" ELSE "false")
                 /\ NoBurst
                 /\ UNCHANGED entityVars
          [] h.kind = "select" /\ h.stage = "off" ->
                 /\ IF tok = 0
                    THEN /\ SetFrameRet(p, "idle", 0, 0, "raised")
                         /\ handler' = [handler EXCEPT ![p] = [next EXCEPT !.stage = "raised"]]
                    ELSE /\ SetFrameRet(p, "http", 1, 0, "none")
                         /\ handler' = [handler EXCEPT ![p] = [next EXCEPT !.stage = "on"]]
                 /\ NoBurst
                 /\ UNCHANGED shown
          [] h.kind = "select" /\ h.stage = "on" ->
                 /\ SetFrameRet(p, "idle", 0, 0, IF ok THEN "true" ELSE "false")
                 /\ handler' = [handler EXCEPT ![p] =
                                   [seen EXCEPT !.stage = "returned", !.burst = TRUE]]
                 /\ ArmBurst
                 /\ UNCHANGED shown
          [] OTHER ->
                 /\ SetFrameRet(p, "idle", 0, 0, IF ok THEN "true" ELSE "false")
                 /\ handler' = [handler EXCEPT ![p] = [seen EXCEPT !.stage = "returned"]]
                 /\ shown' = IF ok THEN Optimistic(h.kind, shown) ELSE shown
                 /\ NoBurst

(* -------------------------- async_send_command ------------------------- *)
ReturnCommand(p, ok, tok, cog) ==
    /\ id_token' = tok /\ cognito' = cog
    /\ HandlerResume(p, ok, tok)
    /\ UNCHANGED <<grills, phase, loaded, tickVars, published, lastOutcome,
                   now, hostVars>>

(* ------------------------------ GMGCloudApi ---------------------------- *)
OpOf(p) ==
    IF p \in Callers THEN "command"
    ELSE IF phase \in {"setup_grills", "flow_grills"} THEN "grills" ELSE "state"

\* variant: the failure branches of async_get_grills raise
ReturnAbsentGrillsRaise(p, tok, cog) ==
    CASE OpOf(p) = "state" -> ReturnState(None, tok, cog)
      [] OpOf(p) = "grills" ->
             /\ id_token' = tok /\ cognito' = cog
             /\ phase' = "setup_error"
             /\ SetFrame(Main, "idle", 0, 0)
             /\ UNCHANGED <<grills, update_interval, loaded, tickVars, published,
                            lastOutcome, clockVars, hostVars, entityVars>>
      [] OpOf(p) = "command" -> ReturnCommand(p, FALSE, tok, cog)

\* the value an API call returns from its failure branches:
\* None, [] or False
ReturnAbsent(p, tok, cog) ==
    CASE OpOf(p) = "state" -> ReturnState(None, tok, cog)
      [] OpOf(p) = "grills" -> ReturnGrills(FALSE, << >>, tok, cog)
      [] OpOf(p) = "command" -> ReturnCommand(p, FALSE, tok, cog)

\* variant: a successful re-authentication forgets the cached directory
RecCallForgetsDirectory(p, tok, cog) ==
    IF tok = 0
    THEN ReturnAbsent(p, tok, cog)
    ELSE /\ id_token' = tok /\ cognito' = cog
         /\ SetFrame(p, "http", Sat(gets[p] + 1), reauths[p])
         /\ grills' = << >>
         /\ UNCHANGED <<phase, loaded, tickVars, published, lastOutcome,
                        clockVars, hostVars, entityVars, update_interval>>

\* variant: the retry goes out without looking at the token again
RecCallUnchecked(p, tok, cog) ==
    /\ id_token' = tok /\ cognito' = cog
    /\ SetFrame(p, "http", Sat(gets[p] + 1), reauths[p])
    /\ UNCHANGED <<grills, phase, loaded, tickVars, published, lastOutcome,
                   clockVars, hostVars, entityVars, update_interval>>

\* `return await self.async_...(...)` after a successful refresh: the
\* recursive call raises GMGApiError without a token, which the enclosing
\* `except Exception` turns into the failure value; otherwise it issues the
\* request again
RecCall(p, tok, cog) ==
    IF tok = 0
    THEN ReturnAbsent(p, tok, cog)
    ELSE /\ id_token' = tok /\ cognito' = cog
         /\ SetFrame(p, "http", Sat(gets[p] + 1), reauths[p])
         /\ UNCHANGED <<grills, phase, loaded, tickVars, published, lastOutcome,
                        clockVars, hostVars, entityVars, update_interval>>

\* _async_refresh_token is entered, the request having been answered:
\* renewal with the stored Cognito object, or a full authenticate when there
\* is none
StartRefresh(p) ==
    /\ pc' = [pc EXCEPT ![p] = IF cognito THEN "renew" ELSE "auth"]
    /\ reauths' = [reauths EXCEPT ![p] = Sat(reauths[p] + 1)]
    /\ header' = [header EXCEPT ![p] = 0]
    /\ UNCHANGED <<sessionVars, grills, gets, res, ret, session, phase, loaded, tickVars,
                   published, lastOutcome, clockVars, hostVars, entityVars, update_interval>>

\* what `await response.json()` may give for a 200 answer to p's request
\* (the body of any other answer, and of a command's answer, is not decoded)
BodiesOf(p, st) ==
    IF st # 200 THEN {None}
    ELSE CASE OpOf(p) = "state" -> Snapshots
           [] OpOf(p) = "grills" -> Directories
           [] OpOf(p) = "command" -> {None}

\* the branches on response.status, for the answer with status st and decoded
\* body b
Respond(p, st, b) ==
    /\ pc[p] = "http"
    /\ CASE OpOf(p) = "state" ->
               IF st = 200 THEN ReturnState(b, id_token, cognito)
               ELSE IF st \in {401, 403} THEN gets[p] < MaxRequests /\ StartRefresh(p)
               ELSE ReturnState(None, id_token, cognito)
          [] OpOf(p) = "grills" ->
               IF st = 200 THEN ReturnGrills(TRUE, b, id_token, cognito)
               ELSE IF st \in {401, 403} THEN gets[p] < MaxRequests /\ StartRefresh(p)
               ELSE ReturnGrills(FALSE, << >>, id_token, cognito)
          [] OpOf(p) = "command" ->
               IF st \in {200, 201, 202} THEN ReturnCommand(p, TRUE, id_token, cognito)
               ELSE IF st \in {401, 403} THEN gets[p] < MaxRequests /\ StartRefresh(p)
               ELSE ReturnCommand(p, FALSE, id_token, cognito)

\* the response of session.get / session.put arrives
HttpResponse(p) ==
    /\ \E st \in Statuses : \E b \in BodiesOf(p, st) : Respond(p, st, b)
    /\ last' = NoExchange

\* the same step with the exchange kept on record
HttpResponseOnRecord(p) ==
    \E st \in Statuses : \E b \in BodiesOf(p, st) :
        /\ Respond(p, st, b)
        /\ last' = Exchange(p, st, b)

\* the cloud answers 401/403 once more to a call that has issued MaxRequests
\* requests
HttpRejectedAgain(p) ==
    /\ pc[p] = "http"
    /\ gets[p] = MaxRequests
    /\ StartRefresh(p)
    /\ last' = NoExchange

\* the request raises (transport error): `except Exception`
HttpException(p) ==
    /\ pc[p] = "http"
    /\ ReturnAbsent(p, id_token, cognito)
    /\ last' = NoExchange

\* variant: a transport error during a state fetch leaves the call as an
\* exception
HttpExceptionRaises(p) ==
    /\ pc[p] = "http"
    /\ IF OpOf(p) = "state"
       THEN /\ TickFailed(armed, fetched)
            /\ UNCHANGED <<sessionVars, grills, clockVars, hostVars, entityVars>>
       ELSE ReturnAbsent(p, id_token, cognito)
    /\ last' = Exchange(p, TransportError, None)

\* the same step with the exchange kept on record
HttpExceptionOnRecord(p) ==
    /\ pc[p] = "http"
    /\ ReturnAbsent(p, id_token, cognito)
    /\ last' = Exchange(p, TransportError, None)

\* variant: the error of a failed renewal goes to the caller
RenewThreadDoneSurfaces(p) ==
    /\ pc[p] = "renew"
    /\ \/ \E v \in IdTokenValues :
            /\ id_token' = v
            /\ pc' = [pc EXCEPT ![p] = "renewed"]
       \/ /\ pc' = [pc EXCEPT ![p] = "auth_raised"]
          /\ id_token' = id_token
    /\ last' = NoExchange
    /\ UNCHANGED <<cognito, grills, gets, reauths, res, ret, session, header, phase, loaded, tickVars,
                   published, lastOutcome, clockVars, hostVars, entityVars, update_interval>>

\* the executor job _sync_refresh_token ends: renew_access_token() raised, or
\* self._id_token = self._cognito.id_token was assigned in the worker thread
RenewThreadDone(p) ==
    /\ pc[p] = "renew"
    /\ \/ \E v \in IdTokenValues :
            /\ id_token' = v
            /\ pc' = [pc EXCEPT ![p] = "renewed"]
       \/ \* "Token refresh failed, re-authenticating"
          /\ pc' = [pc EXCEPT ![p] = "auth"]
          /\ id_token' = id_token
    /\ last' = NoExchange
    /\ UNCHANGED <<cognito, grills, gets, reauths, res, ret, session, header, phase, loaded, tickVars,
                   published, lastOutcome, clockVars, hostVars, entityVars, update_interval>>

\* _async_refresh_token resumes after the renewal and returns True
RenewResume(p) ==
    /\ pc[p] = "renewed"
    /\ RecCall(p, id_token, cognito)
    /\ last' = NoExchange

\* variant: the login hands back the id token without storing the Cognito
\* object
AuthThreadDoneNoHandle(p) ==
    /\ pc[p] = "auth"
    /\ \/ \E v \in IdTokenValues :
            /\ cognito' = cognito
            /\ res' = [res EXCEPT ![p] = v]
            /\ pc' = [pc EXCEPT ![p] = "authed"]
       \/ /\ pc' = [pc EXCEPT ![p] = "auth_raised"]
          /\ UNCHANGED <<cognito, res>>
    /\ last' = NoExchange
    /\ UNCHANGED <<id_token, grills, gets, reauths, ret, session, header, phase, loaded, tickVars,
                   published, lastOutcome, clockVars, hostVars, entityVars, update_interval>>

\* the executor job _sync_authenticate ends: it raised, or it stored the
\* Cognito object and returned u.id_token (str | None)
AuthThreadDone(p) ==
    /\ pc[p] = "auth"
    /\ \/ \E v \in IdTokenValues :
            /\ cognito' = TRUE
            /\ res' = [res EXCEPT ![p] = v]
            /\ pc' = [pc EXCEPT ![p] = "authed"]
       \/ /\ pc' = [pc EXCEPT ![p] = "auth_raised"]
          /\ UNCHANGED <<cognito, res>>
    /\ last' = NoExchange
    /\ UNCHANGED <<id_token, grills, gets, reauths, ret, session, header, phase, loaded, tickVars,
                   published, lastOutcome, clockVars, hostVars, entityVars, update_interval>>

\* async_authenticate resumes in async_setup_entry
SetupAuthResume ==
    /\ phase = "setup_auth"
    /\ \/ /\ pc[Main] = "authed"
          /\ id_token' = res[Main]
          \* the result is ignored; async_get_grills raises GMGApiError
          \* without a token
          /\ IF res[Main] = 0
             THEN phase' = "setup_error" /\ SetFrame(Main, "idle", 0, 0)
             ELSE phase' = "setup_grills" /\ SetFrame(Main, "http", 1, 0)
       \/ /\ pc[Main] = "auth_raised"
          \* except GMGAuthError: return False
          /\ phase' = "setup_failed" /\ SetFrame(Main, "idle", 0, 0)
          /\ id_token' = id_token
    /\ last' = NoExchange
    /\ UNCHANGED <<cognito, grills, loaded, tickVars, published, lastOutcome,
                   clockVars, hostVars, entityVars, update_interval>>

\* variant: the flow goes on to the directory whatever the login returned;
\* async_get_grills then raises GMGApiError without a token
FlowAuthResumeIgnoresResult ==
    /\ phase = "flow_auth"
    /\ \/ /\ pc[Main] = "authed"
          /\ id_token' = res[Main]
          /\ IF res[Main] = 0
             THEN phase' = "flow_unknown" /\ SetFrame(Main, "idle", 0, 0)
             ELSE phase' = "flow_grills" /\ SetFrame(Main, "http", 1, 0)
       \/ /\ pc[Main] = "auth_raised"
          /\ phase' = "flow_invalid_auth" /\ SetFrame(Main, "idle", 0, 0)
          /\ id_token' = id_token
    /\ last' = NoExchange
    /\ UNCHANGED <<cognito, grills, loaded, tickVars, published, lastOutcome,
                   clockVars, hostVars, entityVars, update_interval>>

\* async_authenticate resumes in async_step_user: False and GMGAuthError show
\* the form with invalid_auth, True goes on to async_get_grills.  The
\* `finally` closes a client that has no session yet
FlowAuthResume ==
    /\ phase = "flow_auth"
    /\ \/ /\ pc[Main] = "authed"
          /\ id_token' = res[Main]
          /\ IF res[Main] = 0
             THEN phase' = "flow_invalid_auth" /\ SetFrame(Main, "idle", 0, 0)
             ELSE phase' = "flow_grills" /\ SetFrame(Main, "http", 1, 0)
       \/ /\ pc[Main] = "auth_raised"
          /\ phase' = "flow_invalid_auth" /\ SetFrame(Main, "idle", 0, 0)
          /\ id_token' = id_token
    /\ last' = NoExchange
    /\ UNCHANGED <<cognito, grills, loaded, tickVars, published, lastOutcome,
                   clockVars, hostVars, entityVars, update_interval>>

\* variant: a re-authentication that gives no token leaves a state fetch as
\* an exception
AuthResumeRaises(p) ==
    /\ ~(p = Main /\ phase \in {"setup_auth", "flow_auth"})
    /\ \/ /\ pc[p] = "authed"
          /\ IF res[p] # 0
             THEN RecCall(p, res[p], cognito)
             ELSE IF OpOf(p) = "state"
                  THEN /\ id_token' = res[p] /\ cognito' = cognito
                       /\ TickFailed(armed, fetched)
                       /\ UNCHANGED <<grills, clockVars, hostVars, entityVars>>
                  ELSE ReturnAbsent(p, res[p], cognito)
       \/ /\ pc[p] = "auth_raised"
          /\ IF OpOf(p) = "state"
             THEN /\ UNCHANGED <<sessionVars, grills, clockVars, hostVars, entityVars>>
                  /\ TickFailed(armed, fetched)
             ELSE ReturnAbsent(p, id_token, cognito)
    /\ last' = NoExchange

\* async_authenticate resumes inside _async_refresh_token
AuthResume(p) ==
    /\ ~(p = Main /\ phase \in {"setup_auth", "flow_auth"})
    /\ \/ /\ pc[p] = "authed"
          /\ IF res[p] # 0
             THEN RecCall(p, res[p], cognito)
             ELSE ReturnAbsent(p, res[p], cognito)
       \/ /\ pc[p] = "auth_raised"
          \* GMGAuthError is caught by the API call's `except Exception`
          /\ ReturnAbsent(p, id_token, cognito)
    /\ last' = NoExchange

(* ------------------------------ scheduler ------------------------------ *)
\* the coordinator starts a refresh (first refresh, timer, or request)
TickStart ==
    /\ phase = "wait"
    \* unloaded platforms leave the coordinator without listeners, and it
    \* schedules no refresh
    /\ unload # "true"
    /\ UNCHANGED sessionVars
    /\ last' = NoExchange
    /\ TickContinue(0, EmptyData, FALSE,
                    burst_until = now + SCAN_BURST_DURATION, << >>, id_token)

\* an entity calls trigger_burst while no handler of the model is running
trigger_burst ==
    /\ loaded
    /\ ArmBurst
    /\ last' = NoExchange
    /\ UNCHANGED <<sessionVars, grills, frameVars, phase, loaded, tickVars,
                   published, lastOutcome, now, hostVars, entityVars>>

\* an entity calls async_send_command: without a token the call raises
\* GMGApiError at once, otherwise it issues its PUT
CommandStart(p) ==
    /\ loaded
    /\ unload # "true"
    /\ p \in Callers
    /\ pc[p] = "idle"
    /\ UNCHANGED sessionVars
    /\ IF id_token = 0
       THEN SetFrameRet(p, "idle", 0, 0, "raised")
       ELSE SetFrameRet(p, "http", 1, 0, "none")
    /\ last' = NoExchange
    /\ UNCHANGED <<grills, phase, loaded, tickVars, published,
                   lastOutcome, clockVars, hostVars, entityVars, update_interval>>

\* the host calls an entity's command handler in coroutine p.  Every handler
\* starts with a command send, which raises GMGApiError at once without a
\* token; the select handler stores the option first, and sends nothing when
\* the device is not on
HandlerStart(p) ==
    /\ loaded
    /\ unload # "true"
    /\ p \in Callers
    /\ pc[p] = "idle"
    /\ UNCHANGED sessionVars
    /\ \E kind \in HandlerKinds : \E opt \in Options :
          LET h == [kind |-> kind, option |-> opt, stage |-> "send",
                    calls |-> IF kind = "select" /\ ~IsOn THEN << >>
                              ELSE <<FirstCall(kind)>>,
                    results |-> {}, burst |-> FALSE, before |-> shown]
          IN  /\ kind # "select" => opt = "grill"
              /\ shown' = IF kind = "select" THEN [shown EXCEPT !.option = opt] ELSE shown
              /\ IF kind = "select" /\ ~IsOn
                 THEN /\ SetFrame(p, "idle", 0, 0)
                      /\ handler' = [handler EXCEPT ![p] =
                                        [h EXCEPT !.stage = "returned", !.burst = TRUE]]
                      /\ ArmBurst
                 ELSE /\ IF id_token = 0
                         THEN /\ SetFrameRet(p, "idle", 0, 0, "raised")
                              /\ handler' = [handler EXCEPT ![p] = [h EXCEPT !.stage = "raised"]]
                         ELSE /\ SetFrameRet(p, "http", 1, 0, "none")
                              /\ handler' = [handler EXCEPT ![p] =
                                                [h EXCEPT !.stage = IF kind = "select" THEN "off"
                                                                   ELSE "send"]]
                      /\ NoBurst
    /\ last' = NoExchange
    /\ UNCHANGED <<grills, phase, loaded, tickVars, published,
                   lastOutcome, now, hostVars>>

\* time.monotonic() advances
TimePasses ==
    /\ now + Quantum <= MaxTime
    /\ now' = now + Quantum
    /\ last' = NoExchange
    /\ UNCHANGED <<sessionVars, grills, frameVars, phase, loaded, tickVars,
                   published, lastOutcome, burst_until, rearmed, update_interval,
                   hostVars, entityVars>>

\* the host unloads the entry: unload_ok is what async_unload_platforms
\* returned; the entry's data is dropped and the API client closed when it is
\* true
async_unload_entry ==
    /\ loaded
    /\ unload # "true"
    /\ \E unload_ok \in BOOLEAN :
          /\ unload' = IF unload_ok THEN "true" ELSE "false"
          /\ session' = IF unload_ok THEN async_close(session) ELSE session
    /\ last' = NoExchange
    /\ UNCHANGED <<sessionVars, grills, pc, gets, reauths, res, ret, header, phase,
                   loaded, tickVars, published, lastOutcome, clockVars,
                   update_interval, entityVars>>

\* one step of the API call coroutine p is suspended in
ApiStep(p) ==
    \/ HttpResponse(p)
    \/ HttpException(p)
    \/ RenewThreadDone(p)
    \/ RenewResume(p)
    \/ AuthThreadDone(p)
    \/ AuthResume(p)

\* the same steps with every HTTP exchange kept on record
ApiStepOnRecord(p) ==
    \/ HttpResponseOnRecord(p)
    \/ HttpExceptionOnRecord(p)
    \/ RenewThreadDone(p)
    \/ RenewResume(p)
    \/ AuthThreadDone(p)
    \/ AuthResume(p)

\* the scheduler: setup, refreshes, burst requests and the clock
NextScheduler ==
    \/ SetupAuthResume
    \/ TickStart
    \/ trigger_burst
    \/ TimePasses
    \/ ApiStep(Main)

SpecScheduler == Init /\ [][NextScheduler]_vars

\* the session: setup and refreshes running concurrently with the entities'
\* command sends, all sharing the token
NextSession ==
    \/ SetupAuthResume
    \/ TickStart
    \/ \E p \in Procs : ApiStep(p)
    \/ \E p \in Callers : CommandStart(p)

SpecSession == Init /\ [][NextSession]_vars

\* the life of a config entry: setup, refreshes and the host's unloading,
\* which may come while a refresh is in flight
NextLifecycle ==
    \/ SetupAuthResume
    \/ TickStart
    \/ ApiStep(Main)
    \/ async_unload_entry

SpecLifecycle == Init /\ [][NextLifecycle]_vars

\* async_config_entry_first_refresh: the refresh that ends the setup
FirstRefresh == ~loaded /\ TickStart

\* the API as its callers see it: the setup with its first refresh, then the
\* entities' command sends before the timer fires again, with the status and
\* body of every HTTP exchange on record next to what the call returned
NextClient ==
    \/ SetupAuthResume
    \/ FirstRefresh
    \/ \E p \in Procs : ApiStepOnRecord(p)
    \/ \E p \in Callers : CommandStart(p)

SpecClient == Init /\ [][NextClient]_vars

\* the host sets up the entry the flow has created: async_setup_entry makes
\* a GMGCloudApi of its own and awaits the login
EntrySetupStart ==
    /\ phase = "flow_created"
    /\ phase' = "setup_auth"
    /\ id_token' = 0 /\ cognito' = FALSE /\ grills' = << >>
    /\ session' = "none"
    /\ pc' = [pc EXCEPT ![Main] = "auth"]
    /\ last' = NoExchange
    /\ UNCHANGED <<gets, reauths, res, ret, header, loaded, tickVars, published,
                   lastOutcome, clockVars, update_interval, hostVars, entityVars>>

\* the call the refresh task is suspended in returns, whatever the cloud
\* answers
CallReturns == ApiStep(Main) \/ HttpRejectedAgain(Main)

\* the refresh task with a cloud that may answer 401/403 without end; every
\* HTTP request and every executor job returns
NextTermination ==
    \/ SetupAuthResume
    \/ TickStart
    \/ ApiStep(Main)
    \/ HttpRejectedAgain(Main)

SpecTermination == Init /\ [][NextTermination]_vars /\ WF_vars(CallReturns)

\* the config flow: async_step_user with credentials, on an API client of
\* its own, then the setup of the entry it creates, with every HTTP exchange
\* on record
NextConfigFlow ==
    \/ FlowAuthResume
    \/ EntrySetupStart
    \/ SetupAuthResume
    \/ FirstRefresh
    \/ ApiStepOnRecord(Main)

SpecConfigFlow == InitFlow /\ [][NextConfigFlow]_vars

\* the entities: the setup with its first refresh, then the command handlers
\* the host calls before the next refresh
NextEntities ==
    \/ SetupAuthResume
    \/ FirstRefresh
    \/ \E p \in Procs : ApiStep(p)
    \/ \E p \in Callers : HandlerStart(p)

SpecEntities == Init /\ [][NextEntities]_vars

TypeOK ==
    /\ id_token \in IdTokenValues
    /\ cognito \in BOOLEAN
    /\ grills \in Directories
    /\ \A p \in Procs : pc[p] \in {"idle", "http", "renew", "renewed", "auth", "authed", "auth_raised"}
    /\ phase \in {"setup_auth", "setup_grills", "setup_failed", "setup_error", "wait", "sweep",
                 "flow_auth", "flow_grills", "flow_created", "flow_invalid_auth",
                 "flow_no_grills", "flow_unknown"}
    /\ now \in 0..MaxTime
    /\ published # None =>
          /\ DOMAIN published[1] \subseteq GrillIds
          /\ \A k \in DOMAIN published[1] : published[1][k].state \in Snapshots
    /\ \A i \in 1..Len(fetched) : fetched[i] \in Snapshots
    /\ update_interval \in {0, SCAN_INTERVAL, SCAN_INTERVAL_ACTIVE, SCAN_INTERVAL_IDLE, SCAN_INTERVAL_BURST}
    /\ \A p \in Procs : ret[p] \in {"none", "true", "false", "raised"}
    /\ last.proc \in Procs
    /\ last.status \in {0, TransportError} \cup Statuses
    /\ session \in {"none", "open", "closed"}
    /\ header \in [Procs -> IdTokenValues]
    /\ unload \in {"none", "true", "false"}
    /\ \A p \in Procs :
          /\ handler[p].kind \in {"none"} \cup HandlerKinds
          /\ handler[p].stage \in {"idle", "send", "off", "on", "returned", "raised"}
          /\ \A i \in 1..Len(handler[p].calls) : handler[p].calls[i] \in ApiMethods
    /\ shown.hvac_mode \in {"off", "heat"}
    /\ shown.option \in Options

(* ============================== properties ============================= *)
\* a refresh ends in this step by returning its dataset
TickOk == sweeps' # sweeps /\ lastOutcome' = "ok"

\* a snapshot that shows a running grill (grillState > 0)
Running(s) == s # None /\ s[1].has /\ s[1].grillState > 0

\* the directory records that carry an identifier, in directory order
IdRecords == SelectSeq(grills, LAMBDA g : g # 0)

\* what the last fetch for identifier k returned, f being the results of a
\* sweep in call order
LastResult(f, k) ==
    f[CHOOSE i \in 1..Len(f) :
          /\ IdRecords[i] = k
          /\ \A j \in (i + 1)..Len(f) : IdRecords[j] # k]

\* C1: a state fetch that meets 401/403 re-authenticates exactly once and
\* retries the GET exactly once; a second 401/403 ends the call without a
\* further re-authentication or request
C1_SingleReauthSingleRetry ==
    phase = "sweep" => (reauths[Main] <= 1 /\ gets[Main] <= 2)

\* C2: at most one renewal / authenticate attempt is in flight at any time,
\* however many callers saw a 401/403
C2_OneRenewalInFlight ==
    Cardinality({p \in Procs : pc[p] \in {"renew", "auth"}}) <= 1

\* C3 (as claimed): the published dataset has exactly one entry per record of
\* the cached directory, and online holds iff the snapshot is present
C3_OneEntryPerDevice ==
    published # None =>
        LET ds == published[1] IN
        /\ \A i \in 1..Len(grills) : grills[i] \in DOMAIN ds
        /\ Cardinality(DOMAIN ds) = Len(grills)
        /\ \A k \in DOMAIN ds : ds[k].online <=> (ds[k].state # None)

\* C3 (amended): the published dataset has exactly one entry per distinct
\* non-empty grillId of the cached directory (records without a grillId are
\* skipped), and online holds iff the snapshot is present
C3_OneEntryPerIdentifier ==
    published # None =>
        LET ds == published[1] IN
        /\ DOMAIN ds = {grills[i] : i \in 1..Len(grills)} \ {0}
        /\ \A k \in DOMAIN ds : ds[k].online <=> (ds[k].state # None)

\* C3 witness: a published sweep over two devices, one online and one offline
C3_Witness ==
    /\ published # None
    /\ Len(grills) = 2
    /\ \E k1, k2 \in DOMAIN published[1] :
          published[1][k1].online /\ ~published[1][k2].online

\* C4 (as claimed): a tick started right after trigger_burst always ends with
\* the burst interval, whatever the snapshots show
C4_BurstAfterImmediateTick ==
    [][(TickOk /\ armed') => update_interval' = SCAN_INTERVAL_BURST]_vars

\* C4 (amended): a tick started right after trigger_burst that ends before
\* the burst expiry ends with the burst interval, whatever the snapshots show
C4_BurstIfTickEndsInWindow ==
    [][(TickOk /\ armed' /\ now' < burst_until')
          => update_interval' = SCAN_INTERVAL_BURST]_vars

\* C4 witness: such a tick has ended with a running grill in its sweep
C4_Witness ==
    /\ phase = "wait" /\ lastOutcome = "ok" /\ armed
    /\ now < burst_until
    /\ update_interval = SCAN_INTERVAL_BURST
    /\ \E i \in 1..Len(fetched) : Running(fetched[i])

\* C5: a tick that ends when burst is not active schedules the active
\* interval if some snapshot of that tick has grillState > 0 and the idle
\* interval otherwise
C5_ActiveOrIdle ==
    [][(TickOk /\ now' >= burst_until') =>
          update_interval' =
              IF \E i \in 1..Len(fetched') : Running(fetched'[i])
              THEN SCAN_INTERVAL_ACTIVE
              ELSE SCAN_INTERVAL_IDLE]_vars

\* C5 witness: one running grill next to an idle one gave the active interval
C5_Witness ==
    /\ phase = "wait" /\ lastOutcome = "ok"
    /\ now >= burst_until
    /\ update_interval = SCAN_INTERVAL_ACTIVE
    /\ \E i, j \in 1..Len(fetched) :
          /\ Running(fetched[i])
          /\ fetched[j] # None /\ ~Running(fetched[j])

\* C6: whenever the burst expiry is in the future the scheduled interval is
\* the burst interval
C6_BurstPrecedence ==
    now < burst_until => update_interval = SCAN_INTERVAL_BURST

\* C6 witness: trigger_burst ran while a sweep is in flight
C6_Witness ==
    /\ phase = "sweep" /\ ~armed
    /\ burst_until = now + SCAN_BURST_DURATION
    /\ update_interval = SCAN_INTERVAL_BURST

\* C7: the burst expiry never decreases
C7_ExpiryMonotone == [][burst_until' >= burst_until]_vars

\* C7 witness: burst was re-armed while still armed and the expiry moved on
C7_Witness == rearmed /\ burst_until > SCAN_BURST_DURATION

C9_TickNeverRaises == lastOutcome # "failed"

C11_CommandSentAtMostTwice ==
    \A p \in Callers : gets[p] <= 2 /\ reauths[p] <= 1

\* the async_send_command call of p ends in this step
CommandEnds(p) == ret'[p] # ret[p] /\ ret'[p] # "none"

\* the HTTP statuses async_send_command accepts
Accepted == {200, 201, 202}

\* C12: async_send_command returns True exactly when its final response has
\* an accepted status (200, 201, 202); in every other case, a missing token
\* included, it returns False and does not raise
C12_TrueIffAcceptedNeverRaises ==
    [][\A p \in Callers :
          CommandEnds(p) =>
              /\ ret'[p] \in {"true", "false"}
              /\ ret'[p] = "true" <=>
                     (last'.proc = p /\ last'.status \in Accepted)]_vars

\* the request of a state fetch ends in this step with an answer other than
\* 401/403, or with a transport error
FetchAnswered ==
    /\ phase = "sweep"
    /\ last'.proc = Main
    /\ last'.status \notin {0, 401, 403}

\* C13: a state fetch returns the decoded body on status 200 and None on 404,
\* on any other status that is not 401/403 and on a transport error; it
\* returns in each of these cases (it does not raise)
C13_SnapshotOrAbsent ==
    [][FetchAnswered =>
          /\ Len(fetched') = Len(fetched) + 1
          /\ fetched'[Len(fetched')] =
                 IF last'.status = 200 THEN last'.body ELSE None]_vars

\* C13 witness: in one sweep the first device answered 200 with a snapshot and
\* the second one 404
C13_Witness ==
    /\ last.proc = Main /\ last.status = 404
    /\ Len(fetched) = 2
    /\ fetched[1] # None /\ fetched[2] = None

\* the tick ends in this step by raising UpdateFailed
TickRaises == sweeps' # sweeps /\ lastOutcome' = "failed"

\* async_get_grill_state is called in this step, for the next record of the
\* directory that has an identifier
FetchCalled ==
    /\ idx' # idx \/ sweeps' # sweeps
    /\ NextIdx(idx) <= Len(grills)

\* a state fetch returns in this step
FetchReturns == phase = "sweep" /\ Len(fetched') = Len(fetched) + 1

\* the re-authentication started by a state fetch ends in this step without
\* a token: the login raised, gave no id token, or the renewal left none
ReauthFails ==
    /\ phase = "sweep"
    /\ pc'[Main] # pc[Main]
    /\ \/ pc[Main] = "auth_raised"
       \/ pc[Main] = "authed" /\ res[Main] = 0
       \/ pc[Main] = "renewed" /\ id_token = 0

\* C14 (as claimed): a state fetch raises exactly when no token is stored at
\* call time or when its re-authentication fails to produce a token
C14_RaisesIffTokenUnattainable ==
    [][/\ TickRaises => ((FetchCalled /\ id_token' = 0) \/ ReauthFails)
       /\ (FetchCalled /\ id_token' = 0) => TickRaises
       /\ ReauthFails => (TickRaises /\ ~FetchReturns)]_vars

\* C14 (amended): a state fetch raises exactly when no token is stored at
\* call time; a re-authentication that fails to produce a token makes it
\* return None
C14_RaisesIffNoTokenAtCall ==
    [][/\ TickRaises <=> (FetchCalled /\ id_token' = 0)
       /\ ReauthFails =>
              (FetchReturns /\ fetched'[Len(fetched')] = None)]_vars

\* C14 witness: a fetch whose re-authentication left no token has returned
\* None, and the fetch called next has raised
C14_Witness ==
    /\ lastOutcome = "failed"
    /\ id_token = 0
    /\ Len(fetched) >= 1
    /\ fetched[Len(fetched)] = None

\* coroutine p enters _async_refresh_token in this step
EnsureEntered(p) == reauths'[p] = reauths[p] + 1

\* C15: _async_refresh_token starts a full authenticate when no Cognito
\* object is stored and a renewal otherwise; a renewal ends either in success
\* or in a full authenticate, and a full authenticate is started in no other
\* way, so the caller never sees the renewal's error
C15_RenewThenAuthenticate ==
    [][\A p \in Procs :
          /\ EnsureEntered(p) => pc'[p] = IF cognito THEN "renew" ELSE "auth"
          /\ (pc[p] = "renew" /\ pc'[p] # "renew") => pc'[p] \in {"renewed", "auth"}
          /\ (pc[p] = "renew" /\ pc'[p] = "auth") =>
                 UNCHANGED <<id_token, ret, fetched, phase, lastOutcome>>
          /\ (pc[p] # "auth" /\ pc'[p] = "auth") =>
                 (pc[p] = "renew" \/ (EnsureEntered(p) /\ ~cognito))]_vars

\* C15 witness: a renewal has failed and the full authenticate that replaces
\* it is running
C15_Witness ==
    \E p \in Procs : pc[p] = "auth" /\ reauths[p] >= 1 /\ cognito

\* _async_refresh_token is about to return True to coroutine p: the renewal
\* went through, or the full authenticate gave an id token
EnsureReturnsTrue(p) ==
    \/ pc[p] = "renewed"
    \/ pc[p] = "authed" /\ res[p] # 0 /\ reauths[p] >= 1

\* the id token stored when _async_refresh_token returns to coroutine p
TokenAtReturn(p) == IF pc[p] = "authed" THEN res[p] ELSE id_token

\* _async_refresh_token is about to leave coroutine p with GMGAuthError
EnsureRaises(p) == pc[p] = "auth_raised" /\ reauths[p] >= 1

\* C16: _async_refresh_token returns True only with a non-null token stored,
\* and with no token stored it returns False: it neither returns True nor
\* raises
C16_TrueIffTokenStored ==
    \A p \in Procs :
        /\ EnsureReturnsTrue(p) => TokenAtReturn(p) # 0
        /\ EnsureRaises(p) => id_token # 0

\* C17: a non-null token implies that a login has gone through (the Cognito
\* object is stored), and the token is null until the first login has been
\* taken over by async_authenticate
C17_TokenImpliesAuthenticated ==
    /\ id_token # 0 => cognito
    /\ phase = "setup_auth" => id_token = 0

\* C17 witness: the token was replaced by a renewal after the setup
C17_Witness ==
    /\ loaded /\ cognito
    /\ id_token # 0
    /\ pc[Main] = "renewed"

\* coroutine p issues an HTTP request (directory, state or command) in this
\* step
RequestIssued(p) ==
    /\ pc'[p] = "http"
    /\ \/ pc[p] # "http"
       \/ gets'[p] # gets[p]
       \/ p = Main /\ idx' # idx

\* C18: no directory, state or command request is issued while the token is
\* null, the retries after a renewal or a login included
C18_NoRequestWithoutToken ==
    [][\A p \in Procs : RequestIssued(p) => id_token' # 0]_vars

\* C18 witness: a command is being retried after a re-authentication while
\* the token is present
C18_Witness ==
    \E p \in Callers : pc[p] = "http" /\ gets[p] = 2 /\ id_token # 0

\* C19: the cached directory is written once, by the directory request of
\* the setup that is answered with a non-empty list, and never changes
\* afterwards, whatever ticks, fetches and renewals follow
C19_DirectoryWrittenOnce ==
    [][grills' # grills =>
          /\ phase = "setup_grills" /\ phase' = "wait"
          /\ grills = << >>]_vars

\* C19 witness: a later tick, after a renewal of the token, works on the
\* two-device directory fetched by the setup
C19_Witness ==
    /\ loaded /\ published # None
    /\ Len(grills) = 2
    /\ phase = "sweep" /\ pc[Main] = "renewed"

\* the re-authentication started by the directory request ends in this step
\* without a token
DirectoryReauthFails ==
    /\ phase = "setup_grills"
    /\ pc'[Main] # pc[Main]
    /\ \/ pc[Main] = "auth_raised"
       \/ pc[Main] = "authed" /\ res[Main] = 0
       \/ pc[Main] = "renewed" /\ id_token = 0

\* C20: async_get_grills, called with a token, does not raise; an answer
\* other than 200 and 401/403, a transport error and a failed
\* re-authentication make it return the empty list, which ends the setup
\* without the cache being written
C20_DirectoryNeverRaises ==
    [][phase = "setup_grills" =>
          /\ phase' \in {"setup_grills", "wait", "setup_failed"}
          /\ (last'.status \notin {0, 200, 401, 403} \/ DirectoryReauthFails) =>
                 (phase' = "setup_failed" /\ grills' = grills)]_vars

\* C20 witness: the directory request was answered 500 and the setup has
\* ended on the empty list
C20_Witness ==
    /\ phase = "setup_failed"
    /\ last.proc = Main /\ last.status = 500

\* async_setup_entry has ended without setting the integration up: it
\* returned False or left with an exception
SetupAborted == phase \in {"setup_failed", "setup_error"}

\* async_setup_entry ends in this step without setting the integration up
SetupAborts == ~SetupAborted /\ SetupAborted'

\* the login of the setup ends in this step without a token: it raised
\* GMGAuthError or gave no id token
SetupAuthFails ==
    /\ phase = "setup_auth" /\ phase' # "setup_auth"
    /\ \/ pc[Main] = "auth_raised"
       \/ pc[Main] = "authed" /\ res[Main] = 0

\* the directory call of the setup returns the empty list in this step
SetupDirectoryEmpty ==
    /\ phase = "setup_grills" /\ pc'[Main] = "idle"
    /\ grills' = << >>

\* C21: the coordinator is created and the entities are set up only after a
\* login that gave a token and a non-empty directory; a failed login and an
\* empty directory end the setup as a failure before any tick has run, and
\* nothing else ends the setup as a failure
C21_SetupAbortsOnlyOnAuthOrEmpty ==
    [][/\ ((update_interval = 0 /\ update_interval' # 0) \/ (~loaded /\ loaded'))
            => (cognito' /\ grills' # << >>)
       /\ (SetupAuthFails \/ SetupDirectoryEmpty)
            => (SetupAborts /\ lastOutcome' = "none" /\ update_interval' = 0)
       /\ SetupAborts => (SetupAuthFails \/ SetupDirectoryEmpty)]_vars

\* the coordinator's timer is running: a further refresh will start
Polling == phase \in {"wait", "sweep"} /\ unload # "true"

\* async_unload_entry returns in this step
UnloadReturns == unload' # unload

\* C22: when async_unload_entry returns, with either outcome of unloading the
\* platforms, polling has stopped and the API client's session is not open
C22_UnloadStopsPollingAndCloses ==
    [][UnloadReturns => (~Polling' /\ session' # "open")]_vars

\* C23: a handler that has sent a command successfully has called
\* trigger_burst by the time it is through (all that is left of it is the
\* refresh request)
C23_CommandFollowedByBurst ==
    \A p \in Callers :
        (handler[p].stage = "returned" /\ TRUE \in handler[p].results)
            => handler[p].burst

\* trigger_burst runs in this step (a call that changes nothing is a
\* stuttering step)
BurstRequested == burst_until' # burst_until \/ rearmed' # rearmed

\* C24: trigger_burst called at time t sets the expiry to exactly
\* t + SCAN_BURST_DURATION, whatever the expiry was before, and sets the
\* interval to SCAN_INTERVAL_BURST in the same step
C24_BurstExpiryFromNow ==
    [][BurstRequested =>
          /\ burst_until' = now + SCAN_BURST_DURATION
          /\ update_interval' = SCAN_INTERVAL_BURST
          /\ now' = now]_vars

\* C24 witness: trigger_burst was called again Quantum seconds into a running
\* burst window, and the expiry is a full duration from that call
C24_Witness ==
    /\ rearmed /\ now = Quantum
    /\ burst_until = Quantum + SCAN_BURST_DURATION
    /\ update_interval = SCAN_INTERVAL_BURST

\* C25: from the creation of the coordinator until its first sweep is
\* complete the interval is SCAN_INTERVAL; from then on it is one of
\* SCAN_INTERVAL_BURST, SCAN_INTERVAL_ACTIVE and SCAN_INTERVAL_IDLE, never
\* SCAN_INTERVAL again
C25_FallbackUntilFirstSweep ==
    /\ (update_interval # 0 /\ ~loaded) => update_interval = SCAN_INTERVAL
    /\ loaded => update_interval \in {SCAN_INTERVAL_BURST, SCAN_INTERVAL_ACTIVE,
                                      SCAN_INTERVAL_IDLE}
    /\ (phase \in {"wait", "sweep"}) => update_interval # 0

\* C25 witness: after the first sweep a later tick has failed, and the
\* interval is still the active one
C25_Witness ==
    /\ loaded /\ lastOutcome = "failed"
    /\ update_interval = SCAN_INTERVAL_ACTIVE

\* a state fetch raises GMGApiError in this step: it is called with no token
\* stored
FetchRaises == FetchCalled /\ id_token' = 0

\* C26: a state fetch that raises GMGApiError ends the tick as failed
\* (UpdateFailed): no further device is fetched, what the sweep has gathered
\* is dropped and the published dataset stays as it was
C26_RaisingFetchFailsTick ==
    [][FetchRaises =>
          /\ TickRaises
          /\ published' = published
          /\ pc'[Main] = "idle"]_vars

\* C26 witness: a tick has failed after its first device was fetched, and the
\* dataset of the tick before it is still published
C26_Witness ==
    /\ loaded /\ lastOutcome = "failed"
    /\ Len(fetched) = 1 /\ Len(IdRecords) = 2
    /\ published # None
    /\ published[1][IdRecords[1]].state # fetched[1]

\* the displayed value a handler of the given kind is about
Displayed(kind, sh) ==
    CASE kind \in {"hvac_off", "hvac_heat"} -> sh.hvac_mode
      [] kind = "temperature" -> sh.target
      [] kind = "probe" -> sh.probe
      [] kind = "select" -> sh.option
      [] OTHER -> sh

\* C27: a handler whose command sends all reported False leaves the value it
\* is about (hvac mode, target temperature, probe target, selected mode) as
\* it was displayed when the handler started
C27_FailedSendKeepsDisplay ==
    \A p \in Callers :
        (handler[p].stage = "returned" /\ handler[p].results = {FALSE})
            => Displayed(handler[p].kind, shown)
                   = Displayed(handler[p].kind, handler[p].before)

\* async_step_user has ended: the entry is created or the form is shown with
\* an error
FlowResults == {"flow_created", "flow_invalid_auth", "flow_no_grills", "flow_unknown"}

\* the login of the config flow has given an id token
FlowAuthSucceeds == phase = "flow_auth" /\ pc[Main] = "authed" /\ res[Main] # 0

\* C28: the config flow creates the entry exactly when the login succeeded
\* and the directory call returned at least one device; a login that fails
\* ends in invalid_auth, a directory call that returns no device in
\* no_grills, and there is no other outcome
C28_EntryIffAuthAndDevices ==
    [][/\ (phase = "flow_auth" /\ phase' # phase) =>
              phase' = IF FlowAuthSucceeds THEN "flow_grills" ELSE "flow_invalid_auth"
       /\ (phase = "flow_grills" /\ phase' # phase) =>
              /\ id_token' # 0 \/ grills' = << >>
              /\ phase' = IF grills' # << >> THEN "flow_created" ELSE "flow_no_grills"
              /\ phase' = "flow_created" <=>
                     (last'.status = 200 /\ last'.body # << >>)
              /\ session' = "closed"
       /\ (phase' \in FlowResults /\ phase' # phase) =>
              phase \in {"flow_auth", "flow_grills"}]_vars

\* C28 witness: the login succeeded, the directory was answered 200 with no
\* device, and the form is shown with no_grills
C28_Witness ==
    /\ phase = "flow_no_grills"
    /\ cognito /\ id_token # 0
    /\ last.status = 200 /\ last.body = << >>

\* C29: every tick ends, by publishing or by failing, when every HTTP request
\* and every executor job returns, whatever the cloud answers
C29_TickTerminates == (phase = "sweep") ~> (phase # "sweep")

\* C30: one async_get_grills call re-authenticates at most once and issues at
\* most one retried request; when the re-authentication leaves no token, or
\* the retried request is answered 401/403 again, the call returns the empty
\* list
C30_DirectoryRetriedOnce ==
    [][phase = "setup_grills" =>
          /\ reauths'[Main] <= 1 /\ gets'[Main] <= 2
          /\ (gets[Main] = 2 /\ last'.status \in {401, 403}) =>
                 (phase' = "setup_failed" /\ grills' = << >>)
          /\ DirectoryReauthFails => phase' = "setup_failed"]_vars

\* a step of async_update_data: the refresh starts, the call it is suspended
\* in moves on, or it ends
TickStep ==
    \/ phase = "wait" /\ phase' = "sweep"
    \/ phase = "sweep" /\ <<pc, gets, reauths, res>>' # <<pc, gets, reauths, res>>
    \/ sweeps' # sweeps

\* C31: a tick that ends as failed leaves the interval and the burst expiry
\* as they were; the only step of a tick that changes the interval is the one
\* that ends it in success, and no step of any tick changes the burst expiry
C31_FailedTickKeepsCadence ==
    [][/\ TickRaises => UNCHANGED <<update_interval, burst_until>>
       /\ (TickStep /\ update_interval' # update_interval) => TickOk
       /\ TickStep => burst_until' = burst_until]_vars

\* C31 witness: a tick has failed after the burst window ran out, and the
\* interval is still the burst interval that the tick found
C31_Witness ==
    /\ loaded /\ lastOutcome = "failed"
    /\ burst_until > 0 /\ now >= burst_until
    /\ update_interval = SCAN_INTERVAL_BURST

\* async_get_grills returns to the setup or to the config flow in this step
DirectoryCallEnds ==
    /\ phase \in {"setup_grills", "flow_grills"}
    /\ phase' # phase

\* C32: async_get_grills that ends on anything but a 200 answer (another
\* status, a transport error, a re-authentication that gives no token) leaves
\* self._grills as it was; the cache of a client changes only in the step in
\* which a directory request is answered 200, and then holds that answer
C32_FailedDirectoryKeepsCache ==
    [][/\ DirectoryCallEnds =>
              grills' = IF last'.status = 200 THEN last'.body ELSE grills
       /\ (grills' # grills /\ phase # "flow_created") =>
              (DirectoryCallEnds /\ last'.status = 200)]_vars

\* C32 witness: the directory request of the config flow, sent with a token,
\* raised a transport error; the call has returned the empty list and the
\* cache is the empty initial directory
C32_Witness ==
    /\ phase = "flow_no_grills"
    /\ last.status = TransportError
    /\ cognito /\ id_token # 0
    /\ grills = << >>

\* C33: a request is built from the token as it is stored in the step that
\* issues it, and that token is not None; the request that follows a
\* re-login carries the token the login has just returned, and the one that
\* follows a renewal the token the renewal job has left in self._id_token.
\* No request in flight is without an Authorization header
C33_RequestCarriesStoredToken ==
    [][\A p \in Procs :
          /\ RequestIssued(p) => (header'[p] = id_token' /\ header'[p] # 0)
          /\ (RequestIssued(p) /\ pc[p] = "authed") => header'[p] = res[p]
          /\ (RequestIssued(p) /\ pc[p] = "renewed") => header'[p] = id_token
          /\ pc'[p] = "http" => header'[p] # 0]_vars

\* C33 witness: the directory request is in flight for the second time, after
\* one refresh, and carries the token that is stored now
C33_Witness ==
    /\ phase = "setup_grills"
    /\ pc[Main] = "http" /\ gets[Main] = 2 /\ reauths[Main] = 1
    /\ header[Main] = id_token

\* a renewal or a login of coroutine p ends in this step without success:
\* renew_access_token raised, the login raised, or async_authenticate
\* returns False
ReauthAttemptFails(p) ==
    \/ pc[p] = "renew" /\ pc'[p] = "auth"
    \/ pc[p] = "auth_raised" /\ pc'[p] # "auth_raised"
    \/ pc[p] = "authed" /\ res[p] = 0 /\ pc'[p] # "authed"

\* C34: a renewal or login that does not succeed leaves a token that was
\* stored before it as it was
C34_FailedReauthKeepsToken ==
    [][\A p \in Procs :
          (id_token # 0 /\ ReauthAttemptFails(p)) => id_token' = id_token]_vars

\* C35: once async_close has closed the session of the entry's client, no
\* later step opens a session again, and closing a closed client changes
\* nothing
C35_ClosedStaysClosed ==
    [][/\ session = "closed" => session' = "closed"
       /\ async_close(async_close(session)) = async_close(session)]_vars

\* C36: when async_setup_entry has ended without setting the integration up
\* (it returned False, or left with an exception), the client it created
\* has no open session
C36_AbortedSetupHoldsNoSession ==
    SetupAborted => session # "open"

\* the commands the handler recorded in h has issued, in order: the API
\* method it called last has sent nothing when it raised at its token check
Issued(h) ==
    IF h.stage = "raised" THEN SubSeq(h.calls, 1, Len(h.calls) - 1) ELSE h.calls

\* async_select_option starts in coroutine p in this step
SelectStarts(p) ==
    /\ pc[p] = "idle"
    /\ handler'[p] # handler[p]
    /\ handler'[p].kind = "select"

\* async_select_option ends in coroutine p in this step, by returning or by
\* raising
SelectEnds(p) ==
    /\ handler'[p] # handler[p]
    /\ handler'[p].kind = "select"
    /\ handler'[p].stage \in {"returned", "raised"}

\* C37: a selection made while the published snapshot shows the grill on
\* issues the power-off and then the power-on of the selected mode, in this
\* order and nothing else; a selection made while it is off or has no
\* snapshot issues no command and changes the stored selection only, the
\* polling cadence staying as it was
C37_SelectRestartsRunningGrill ==
    [][\A p \in Callers :
          /\ (SelectEnds(p) /\ IsOn) =>
                 Issued(handler'[p]) = <<"async_power_off", PowerOn(handler'[p].option)>>
          /\ (SelectStarts(p) /\ ~IsOn) =>
                 /\ Issued(handler'[p]) = << >>
                 /\ shown' = [shown EXCEPT !.option = handler'[p].option]
                 /\ UNCHANGED <<burst_until, update_interval>>]_vars

====
